---------------------------- MODULE Spec2Model ----------------------------
(***************************************************************************)
(* A model of main.py: the Jira ticket -> prompt -> test-case pipeline of  *)
(* the Streamlit application, its session store and its two batch loops.   *)
(*                                                                         *)
(* Python strings are sequences of one-character strings, so that strip,   *)
(* split, lower, join and substring search are computed as the code        *)
(* computes them.  Python values that may be absent, None, or of several   *)
(* types are tagged records.                                               *)
(***************************************************************************)
EXTENDS Integers, Sequences, FiniteSets, TLC

VARIABLES
    openai_api_key,        \* sidebar text input (line 47)
    jira_filled,           \* all([jira_url, jira_email, jira_api_token])
    batch_descriptions,    \* the free-text batch text area (line 473)
    clicks,                \* button clicks handled so far in the session
    generated_test_cases,  \* st.session_state.generated_test_cases
    fetched_tickets,       \* st.session_state.fetched_tickets (issue keys)
    handler,               \* the button handler that is running, or "idle"
    pc,                    \* the position inside the running handler
    lines,                 \* manual batch: batch_descriptions.strip().split('\n')
    selected_tickets,      \* tracker batch: the selected keys
    i,                     \* the 0-based loop index of the running batch
    ticket_key,            \* the key the result is stored under
    ticket_details,        \* the dict handed to generate_test_cases, or None
    test_cases,            \* what generate_test_cases returned
    requests,              \* the completion requests the last call issued, answered
    progress,              \* the progress bar's value, a fraction num/den
    status_text,           \* the status line
    st_errors,             \* kinds of st.error shown by the running handler
    log,                   \* what the running handler did, item by item
    store_at_start,        \* the session store when the running batch began
    comments,              \* the jira.add_comment calls of the running handler
    success,               \* what save_test_cases_to_jira returned, if called
    fn_pc,                 \* pure-function checks: position
    fn_in,                 \* pure-function checks: the input
    fn_out                 \* pure-function checks: the output

sessionVars ==
    <<openai_api_key, jira_filled, batch_descriptions, clicks,
      comments, success,
      generated_test_cases, fetched_tickets, handler, pc, lines,
      selected_tickets, i, ticket_key, ticket_details, test_cases, requests,
      progress, status_text, st_errors, log, store_at_start>>

fnVars ==
    <<fn_pc, fn_in, fn_out>>

vars ==
    <<sessionVars, fnVars>>

-----------------------------------------------------------------------------
(* Bounds of the model *)

\* longest free-text batch input that is enumerated, in characters
MaxTextLen ==
    6

\* button clicks followed in one session
MaxClicks ==
    3

-----------------------------------------------------------------------------
(* Python strings *)

Whitespace ==
    {" ", "\n"}

UpperCase ==
    <<"A","B","C","D","E","F","G","H","I","J","K","L","M",
      "N","O","P","Q","R","S","T","U","V","W","X","Y","Z">>

LowerCase ==
    <<"a","b","c","d","e","f","g","h","i","j","k","l","m",
      "n","o","p","q","r","s","t","u","v","w","x","y","z">>

\* str.lower() of one character
LowerChar(c) ==
    IF \E k \in 1..Len(UpperCase) : UpperCase[k] = c
    THEN LowerCase[CHOOSE k \in 1..Len(UpperCase) : UpperCase[k] = c]
    ELSE c

\* str.lower()
Lower(s) ==
    [k \in 1..Len(s) |-> LowerChar(s[k])]

\* needle in hay
Contains(hay, needle) ==
    \E k \in 0..(Len(hay) - Len(needle)) :
        SubSeq(hay, k + 1, k + Len(needle)) = needle

RECURSIVE LStrip(_)
LStrip(s) ==
    IF s # <<>> /\ Head(s) \in Whitespace THEN LStrip(Tail(s)) ELSE s

RECURSIVE RStrip(_)
RStrip(s) ==
    IF s # <<>> /\ s[Len(s)] \in Whitespace
    THEN RStrip(SubSeq(s, 1, Len(s) - 1))
    ELSE s

\* str.strip()
Strip(s) ==
    RStrip(LStrip(s))

\* str.split(sep) with a one-character separator: always at least one part
RECURSIVE Split(_, _)
Split(s, sep) ==
    IF \E k \in 1..Len(s) : s[k] = sep
    THEN LET k == CHOOSE k \in 1..Len(s) :
                      s[k] = sep /\ \A j \in 1..(k - 1) : s[j] # sep
         IN <<SubSeq(s, 1, k - 1)>> \o Split(SubSeq(s, k + 1, Len(s)), sep)
    ELSE <<s>>

\* sep.join(parts)
RECURSIVE Join(_, _)
Join(parts, sep) ==
    IF parts = <<>> THEN <<>>
    ELSE IF Len(parts) = 1 THEN parts[1]
    ELSE parts[1] \o sep \o Join(Tail(parts), sep)

-----------------------------------------------------------------------------
(* Python values *)

\* an attribute the object does not have
Absent ==
    [tag |-> "absent"]

PyNone ==
    [tag |-> "None"]

PyStr(s) ==
    [tag |-> "str", val |-> s]

PyInt(n) ==
    [tag |-> "int", val |-> n]

PyList(l) ==
    [tag |-> "list", val |-> l]

\* an object with a .name attribute (a priority, a component)
PyNamed(n) ==
    [tag |-> "obj", name |-> n]

\* bool(v)
Truthy(v) ==
    CASE v.tag = "None" -> FALSE
      [] v.tag = "str" -> v.val # <<>>
      [] v.tag = "int" -> v.val # 0
      [] v.tag = "list" -> v.val # <<>>
      [] OTHER -> TRUE

\* hasattr(obj, name)
HasAttr(v) ==
    v.tag # "absent"

\* getattr(obj, name, None)
GetAttr(v) ==
    IF v.tag = "absent" THEN PyNone ELSE v

\* the None a function returns in place of a string
None ==
    <<"None">>

\* the None get_ticket_details returns in place of a dict
NoDetails ==
    [none |-> TRUE]

\* bool(s) of a value that is a string or None
TruthyStr(s) ==
    s # None /\ s # <<>>

-----------------------------------------------------------------------------
(* get_ticket_details (lines 119-160) *)

NoDescription ==
    <<"N","o"," ","d","e","s","c","r","i","p","t","i","o","n"," ",
      "p","r","o","v","i","d","e","d">>

NotSet ==
    <<"N","o","t"," ","s","e","t">>

NoAcceptanceCriteria ==
    <<"N","o"," ","a","c","c","e","p","t","a","n","c","e"," ",
      "c","r","i","t","e","r","i","a"," ","p","r","o","v","i","d","e","d">>

AcceptWord ==
    <<"a","c","c","e","p","t">>

\* the probed custom fields, in the order of the list at lines 143-144
custom_field_names ==
    <<"customfield_10000", "customfield_10001", "customfield_10002",
      "customfield_10003", "customfield_10004", "customfield_10005">>

\* the condition of line 149
FieldMatches(value) ==
    /\ Truthy(value)
    /\ value.tag = "str"
    /\ Contains(Lower(value.val), AcceptWord)

\* the loop of lines 146-153 without its break: the last match wins
RECURSIVE ProbeWithoutBreak(_, _)
ProbeWithoutBreak(fields, k) ==
    IF k > Len(custom_field_names) THEN NoAcceptanceCriteria
    ELSE LET value == GetAttr(fields[custom_field_names[k]])
             later == ProbeWithoutBreak(fields, k + 1)
         IN IF later # NoAcceptanceCriteria THEN later
            ELSE IF FieldMatches(value) THEN value.val
            ELSE NoAcceptanceCriteria

\* the loop of lines 146-153 from position k on, starting from the
\* placeholder of line 140
RECURSIVE ProbeFrom(_, _)
ProbeFrom(fields, k) ==
    IF k > Len(custom_field_names) THEN NoAcceptanceCriteria
    ELSE LET value == GetAttr(fields[custom_field_names[k]])
         IN IF FieldMatches(value) THEN value.val
            ELSE ProbeFrom(fields, k + 1)

\* line 131-132
PriorityOf(priority) ==
    IF HasAttr(priority) /\ Truthy(priority) THEN priority.name ELSE NotSet

\* line 133: whether the list comprehension raises (it iterates whatever the
\* attribute holds once the attribute exists)
ComponentsRaises(components) ==
    HasAttr(components) /\ components.tag # "list"

\* line 133
ComponentsOf(components) ==
    IF HasAttr(components)
    THEN [k \in 1..Len(components.val) |-> components.val[k].name]
    ELSE <<>>

\* get_ticket_details: `fetched` is what jira.issue(issue_key) gives, an issue
\* or an exception; every exception ends in the handler of lines 158-160
GetTicketDetails(fetched) ==
    IF fetched.tag = "error" THEN NoDetails
    ELSE IF ComponentsRaises(fetched.components) THEN NoDetails
    ELSE [key |-> fetched.key,
          summary |-> fetched.summary,
          description |-> IF Truthy(fetched.description)
                          THEN fetched.description.val
                          ELSE NoDescription,
          status |-> fetched.status,
          issue_type |-> fetched.issuetype,
          priority |-> PriorityOf(fetched.priority),
          components |-> ComponentsOf(fetched.components),
          created |-> fetched.created,
          updated |-> fetched.updated,
          acceptance_criteria |-> ProbeFrom(fetched.custom, 1)]

-----------------------------------------------------------------------------
(* The two manually built tickets *)

\* manual_ticket of the single-ticket form (lines 359-367)
ManualTicket(form) ==
    [key |-> form.key,
     summary |-> form.summary,
     description |-> form.description,
     issue_type |-> form.issue_type,
     priority |-> form.priority,
     components |-> <<form.components>>,
     acceptance_criteria |-> form.acceptance_criteria]

Story ==
    <<"S","t","o","r","y">>

Medium ==
    <<"M","e","d","i","u","m">>

NotProvided ==
    <<"N","o","t"," ","p","r","o","v","i","d","e","d">>

\* line 489 with the bound off by one: exactly three parts are refused
WellFormedFourParts(line) ==
    Len(Split(line, "|")) >= 4

\* line 489
WellFormed(line) ==
    Len(Split(line, "|")) >= 3

\* manual_ticket of the free-text batch (lines 488-504), for a well-formed line
BatchTicket(line) ==
    LET parts == Split(line, "|")
    IN [key |-> Strip(parts[1]),
        summary |-> Strip(parts[2]),
        description |-> Strip(parts[3]),
        issue_type |-> Story,
        priority |-> Medium,
        components |-> <<>>,
        acceptance_criteria |-> NotProvided]

-----------------------------------------------------------------------------
(* The prompt of generate_test_cases (lines 176-206).  The fixed text of   *)
(* the template is cut into pieces, each one element of the prompt; the    *)
(* fields are spliced in character by character.                           *)

NoComponents ==
    <<"N","o"," ","c","o","m","p","o","n","e","n","t","s">>

CommaSpace ==
    <<",", " ">>

\* line 176
ComponentsStr(components) ==
    IF components # <<>> THEN Join(components, CommaSpace) ELSE NoComponents

PromptIntro ==
    "\n    You are an expert QA engineer. Based on the following Jira ticket details, generate a comprehensive set of test cases.\n\n"

LabelKey ==
    "    TICKET KEY: "

LabelSummary ==
    "\n    SUMMARY: "

LabelDescription ==
    "\n    DESCRIPTION: "

LabelIssueType ==
    "\n    ISSUE TYPE: "

LabelPriority ==
    "\n    PRIORITY: "

LabelComponents ==
    "\n    COMPONENTS: "

LabelAcceptance ==
    "\n    ACCEPTANCE CRITERIA: "

InstructionsHead ==
    "\n\n    For each test case, provide:\n    1. "

TestCaseIdPhrase ==
    "Test case ID (TC-XX format)"

InstructionsTail ==
    "\n    2. Test objective\n    3. Preconditions\n    4. Test steps (numbered)\n    5. Expected results\n    6. Priority (High/Medium/Low)\n\n    Cover the following:\n    - Positive test cases (valid inputs/scenarios)\n    - Negative test cases (invalid inputs/error handling)\n    - Edge cases and boundary values\n    - Performance considerations (if applicable)\n    - Security aspects (if applicable)\n    - Integration points with other components\n\n    Format the test cases clearly with proper categorization using markdown.\n    "

\* markup characters replaced by entities, as an HTML-escaping template would
RECURSIVE Escaped(_)
Escaped(s) ==
    IF s = <<>> THEN <<>>
    ELSE (CASE Head(s) = "<" -> <<"&","l","t",";">>
            [] Head(s) = ">" -> <<"&","g","t",";">>
            [] OTHER -> <<Head(s)>>) \o Escaped(Tail(s))

\* lines 178-206 with the description escaped
BuildPromptEscaped(t) ==
    <<PromptIntro, LabelKey>> \o t.key
    \o <<LabelSummary>> \o t.summary
    \o <<LabelDescription>> \o Escaped(t.description)
    \o <<LabelIssueType>> \o t.issue_type
    \o <<LabelPriority>> \o t.priority
    \o <<LabelComponents>> \o ComponentsStr(t.components)
    \o <<LabelAcceptance>> \o t.acceptance_criteria
    \o <<InstructionsHead, TestCaseIdPhrase, InstructionsTail>>

\* lines 178-206
BuildPrompt(t) ==
    <<PromptIntro, LabelKey>> \o t.key
    \o <<LabelSummary>> \o t.summary
    \o <<LabelDescription>> \o t.description
    \o <<LabelIssueType>> \o t.issue_type
    \o <<LabelPriority>> \o t.priority
    \o <<LabelComponents>> \o ComponentsStr(t.components)
    \o <<LabelAcceptance>> \o t.acceptance_criteria
    \o <<InstructionsHead, TestCaseIdPhrase, InstructionsTail>>

-----------------------------------------------------------------------------
(* fetch_jira_tickets (lines 100-116) *)

ProjectClause ==
    <<"p","r","o","j","e","c","t"," ","="," ">>

StatusClause ==
    <<" ","A","N","D"," ","s","t","a","t","u","s"," ","="," ","'">>

Quote ==
    <<"'">>

All ==
    <<"A","l","l">>

\* the query with the status clause for every status given, "All" included
SearchQueryAnyStatus(project_key, status) ==
    ProjectClause \o project_key \o
        (IF TruthyStr(status) THEN StatusClause \o status \o Quote ELSE <<>>)

\* the query of lines 106-109
SearchQuery(project_key, status) ==
    ProjectClause \o project_key \o
        (IF TruthyStr(status) /\ status # All
         THEN StatusClause \o status \o Quote
         ELSE <<>>)

\* the first n elements of a sequence
FirstN(seq, n) ==
    SubSeq(seq, 1, IF n < Len(seq) THEN n ELSE Len(seq))

\* jira.search_issues(query, maxResults = max_results) on a tracker that
\* either raises or answers with its matches, capped, in its own order
SearchIssues(tracker, query, max_results) ==
    [raised |-> tracker.fails,
     issues |-> IF tracker.fails THEN <<>> ELSE FirstN(tracker.matches, max_results)]

\* fetch_jira_tickets: what was sent to the tracker, what is returned and
\* which error is shown
FetchJiraTickets(tracker, project_key, status, max_results) ==
    IF ~TruthyStr(project_key)
    THEN [sent |-> <<>>, result |-> <<>>, shown |-> {"project_key"}]
    ELSE LET query == SearchQuery(project_key, status)
             answer == SearchIssues(tracker, query, max_results)
         IN [sent |-> <<[query |-> query, maxResults |-> max_results]>>,
             result |-> IF answer.raised THEN <<>> ELSE answer.issues,
             shown |-> IF answer.raised THEN {"search"} ELSE {}]

-----------------------------------------------------------------------------
(* The status line of the batch handlers *)

AllProcessed ==
    <<"A","l","l"," ","t","i","c","k","e","t","s"," ",
      "p","r","o","c","e","s","s","e","d","!">>

\* status_text before anything is written to it (st.empty(), lines 485, 552)
NoStatus ==
    [kind |-> "empty"]

\* status_text of lines 494 and 555, kept as its parts
Processing(key, n, total) ==
    [kind |-> "processing", key |-> key, n |-> n, total |-> total]

\* status_text of lines 512 and 565
Finished ==
    [kind |-> "text", text |-> AllProcessed]

-----------------------------------------------------------------------------
(* save_test_cases_to_jira (lines 224-232) *)

CommentHeader ==
    <<"*","A","I"," ","G","e","n","e","r","a","t","e","d"," ","T","e","s","t"," ","C","a","s","e","s","*","\n","\n">>

\* no call of save_test_cases_to_jira in this run of the script
NotSaved ==
    "not called"

\* the comment posted without the header line
SaveTestCasesToJiraBare(raises, manual, ticket_key_, test_cases_) ==
    [comment |-> [key |-> ticket_key_, body |-> test_cases_,
                  manual |-> manual, raised |-> raises],
     success |-> IF raises THEN "False" ELSE "True",
     shown |-> IF raises THEN {"save"} ELSE {}]

\* save_test_cases_to_jira on a tracker whose add_comment raises or not; the
\* comment is noted with the checkbox value of the run that posted it
SaveTestCasesToJira(raises, manual, ticket_key_, test_cases_) ==
    [comment |-> [key |-> ticket_key_, body |-> CommentHeader \o test_cases_,
                  manual |-> manual, raised |-> raises],
     success |-> IF raises THEN "False" ELSE "True",
     shown |-> IF raises THEN {"save"} ELSE {}]

-----------------------------------------------------------------------------
(* The state of a session right after the script's first run (lines 30-33) *)

SessionStart(api_key, filled, text) ==
    /\ openai_api_key = api_key
    /\ jira_filled = filled
    /\ batch_descriptions = text
    /\ clicks = 0
    /\ generated_test_cases = <<>>
    /\ fetched_tickets = <<>>
    /\ handler = "idle"
    /\ pc = "idle"
    /\ lines = <<>>
    /\ selected_tickets = <<>>
    /\ i = 0
    /\ ticket_key = <<>>
    /\ ticket_details = NoDetails
    /\ test_cases = None
    /\ requests = <<>>
    /\ comments = <<>>
    /\ success = NotSaved
    /\ progress = [num |-> 0, den |-> 1]
    /\ status_text = NoStatus
    /\ st_errors = {}
    /\ log = <<>>
    /\ store_at_start = <<>>

-----------------------------------------------------------------------------
(* Inputs of the pure-function checks *)

\* an issue as jira.issue returns it; summary, status, issuetype, created and
\* updated are always present on a tracker issue
RawIssue(description, priority, components, custom) ==
    [tag |-> "issue",
     key |-> <<"P","-","1">>,
     summary |-> <<"A","d","d"," ","l","o","g","i","n">>,
     description |-> description,
     status |-> <<"O","p","e","n">>,
     issuetype |-> <<"B","u","g">>,
     priority |-> priority,
     components |-> components,
     created |-> <<"2","0","2","4">>,
     updated |-> <<"2","0","2","5">>,
     custom |-> custom]

\* jira.issue raised
JiraError ==
    [tag |-> "error"]

CustomFieldSet ==
    {custom_field_names[k] : k \in 1..Len(custom_field_names)}

\* what a probed custom field may hold
CustomValues ==
    {Absent, PyNone, PyInt(7), PyStr(<<>>),
     PyStr(<<"n","o">>),
     PyStr(<<"A","c","c","e","p","t">>),
     PyStr(<<"I"," ","A","C","C","E","P","T">>)}

NoCustom ==
    [n \in CustomFieldSet |-> Absent]

Descriptions ==
    {PyNone, PyStr(<<>>), PyStr(<<"<","b",">","{","x","}">>)}

Priorities ==
    {Absent, PyNone, PyNamed(<<"H","i","g","h">>)}

ComponentValues ==
    {Absent, PyNone, PyList(<<>>),
     PyList(<<PyNamed(<<"A","u","t","h">>)>>),
     PyList(<<PyNamed(<<"A","u","t","h">>), PyNamed(<<"U","I">>)>>)}

\* issues that differ in their custom fields only
IssuesForProbing ==
    {RawIssue(PyStr(<<"d">>), PyNamed(<<"L","o","w">>), PyList(<<>>), cf) :
        cf \in [CustomFieldSet -> CustomValues]}

\* issues that differ in their optional fields
IssuesForDefaults ==
    {RawIssue(d, p, c, cf) :
        d \in Descriptions, p \in Priorities, c \in ComponentValues,
        cf \in {NoCustom,
                [NoCustom EXCEPT !["customfield_10002"] =
                    PyStr(<<"A","c","c","e","p","t">>)]}}

ManualKey ==
    <<"M","A","N","U","A","L","-","1","2","3">>

\* what the single-ticket form may hold (lines 360-366)
ManualForms ==
    [key : {ManualKey, <<>>},
     summary : {<<>>, <<"S","u","m">>},
     description : {<<>>, <<"<","b",">","{","x","}">>},
     issue_type : {Story, <<"B","u","g">>, <<"T","a","s","k">>, <<"E","p","i","c">>},
     priority : {<<"H","i","g","h">>, Medium, <<"L","o","w">>},
     components : {<<>>, <<"A","u","t","h">>, <<"A","u","t","h",",","U","I">>},
     acceptance_criteria : {<<>>, <<"o","k">>}]

TextAlphabet ==
    {"K", "|", " ", "\n"}

\* every text of at most n characters
TextsUpTo(n) ==
    UNION {[1..k -> TextAlphabet] : k \in 0..n}

\* single lines of the free-text batch
BatchLines ==
    {t \in TextsUpTo(MaxTextLen - 1) : \A k \in 1..Len(t) : t[k] # "\n"}

FnStart(inputs) ==
    /\ fn_pc = "input"
    /\ fn_in \in inputs
    /\ fn_out = [ticket |-> NoDetails, prompt |-> <<>>]

FnOff ==
    /\ fn_pc = "off"
    /\ fn_in = [entry |-> "none"]
    /\ fn_out = [ticket |-> NoDetails, prompt |-> <<>>]

-----------------------------------------------------------------------------
(* The pipeline ticket source -> ticket details -> prompt, one step each *)

\* get_ticket_details on what the tracker returned
FnGetTicketDetails ==
    /\ fn_pc = "input"
    /\ fn_in.entry = "tracker"
    /\ LET details == GetTicketDetails(fn_in.fetched)
       IN /\ fn_out' = [fn_out EXCEPT !.ticket = details]
          /\ fn_pc' = IF details = NoDetails THEN "no_ticket" ELSE "ticket"
    /\ UNCHANGED <<fn_in, sessionVars>>

\* the single-ticket form
FnManualTicket ==
    /\ fn_pc = "input"
    /\ fn_in.entry = "manual"
    /\ fn_out' = [fn_out EXCEPT !.ticket = ManualTicket(fn_in.form)]
    /\ fn_pc' = "ticket"
    /\ UNCHANGED <<fn_in, sessionVars>>

\* one line of the free-text batch
FnBatchTicket ==
    /\ fn_pc = "input"
    /\ fn_in.entry = "batch"
    /\ IF WellFormed(fn_in.line)
       THEN /\ fn_out' = [fn_out EXCEPT !.ticket = BatchTicket(fn_in.line)]
            /\ fn_pc' = "ticket"
       ELSE /\ fn_out' = fn_out
            /\ fn_pc' = "no_ticket"
    /\ UNCHANGED <<fn_in, sessionVars>>

\* the prompt of generate_test_cases
FnBuildPrompt ==
    /\ fn_pc = "ticket"
    /\ fn_out' = [fn_out EXCEPT !.prompt = BuildPrompt(fn_out.ticket)]
    /\ fn_pc' = "prompt"
    /\ UNCHANGED <<fn_in, sessionVars>>

InitDetails ==
    /\ SessionStart(<<>>, FALSE, <<>>)
    /\ FnStart([entry : {"tracker"},
                fetched : IssuesForProbing \cup IssuesForDefaults \cup {JiraError}])

NextDetails ==
    FnGetTicketDetails

SpecDetails ==
    InitDetails /\ [][NextDetails]_vars

InitPrompt ==
    /\ SessionStart(<<>>, FALSE, <<>>)
    /\ FnStart([entry : {"tracker"}, fetched : IssuesForDefaults]
               \cup [entry : {"manual"}, form : ManualForms]
               \cup [entry : {"batch"}, line : BatchLines])

NextPrompt ==
    \/ FnGetTicketDetails
    \/ FnManualTicket
    \/ FnBatchTicket
    \/ FnBuildPrompt

SpecPrompt ==
    InitPrompt /\ [][NextPrompt]_vars

-----------------------------------------------------------------------------
(* fetch_jira_tickets as a function of its arguments and the tracker *)

\* the choices of the status selectbox (line 306)
status_options ==
    {<<"A","l","l">>,
     <<"T","o"," ","D","o">>,
     <<"I","n"," ","P","r","o","g","r","e","s","s">>,
     <<"D","o","n","e">>,
     <<"R","e","a","d","y"," ","f","o","r"," ","Q","A">>,
     <<"O","p","e","n">>,
     <<"C","l","o","s","e","d">>}

\* a status no selectbox offers, with a quote in it
QuotedStatus ==
    <<"W","o","n","'","t"," ","D","o">>

SearchStatuses ==
    status_options \cup {None, <<>>, QuotedStatus}

SearchProjectKeys ==
    {None, <<>>, <<"P">>, <<"A","B">>}

\* st.number_input of line 310 never gives less than 1
SearchCaps ==
    {1, 2, 3}

\* the issues a tracker holds for a query, in the order it gives them
TrackerMatches ==
    {<<>>,
     <<<<"P","-","1">>>>,
     <<<<"P","-","1">>, <<"P","-","2">>>>,
     <<<<"P","-","2">>, <<"P","-","1">>>>,
     <<<<"P","-","3">>, <<"P","-","1">>, <<"P","-","2">>>>,
     <<<<"P","-","2">>, <<"P","-","3">>, <<"P","-","1">>, <<"P","-","4">>>>}

SearchTrackers ==
    [fails : BOOLEAN, matches : TrackerMatches]

NotSearched ==
    [sent |-> <<>>, result |-> <<>>, shown |-> {}]

FnFetchJiraTickets ==
    /\ fn_pc = "input"
    /\ fn_in.entry = "search"
    /\ fn_out' = FetchJiraTickets(fn_in.tracker, fn_in.project_key,
                                  fn_in.status, fn_in.max_results)
    /\ fn_pc' = "searched"
    /\ UNCHANGED <<fn_in, sessionVars>>

InitSearch ==
    /\ SessionStart(<<>>, FALSE, <<>>)
    /\ fn_pc = "input"
    /\ fn_in \in [entry : {"search"}, tracker : SearchTrackers,
                  project_key : SearchProjectKeys, status : SearchStatuses,
                  max_results : SearchCaps]
    /\ fn_out = NotSearched

NextSearch ==
    FnFetchJiraTickets

SpecSearch ==
    InitSearch /\ [][NextSearch]_vars

-----------------------------------------------------------------------------
(* Claims about get_ticket_details, under SpecDetails *)

\* 'accept' occurs in s in any mix of upper and lower case, said without
\* str.lower(): some window of six characters spells it
SpellsAccept(s) ==
    \E k \in 0..(Len(s) - 6) :
        /\ s[k + 1] \in {"a", "A"}
        /\ s[k + 2] \in {"c", "C"}
        /\ s[k + 3] \in {"c", "C"}
        /\ s[k + 4] \in {"e", "E"}
        /\ s[k + 5] \in {"p", "P"}
        /\ s[k + 6] \in {"t", "T"}

\* the positions in the probed order whose field is a non-empty string that
\* spells 'accept'
AcceptingPositions(custom) ==
    {k \in 1..Len(custom_field_names) :
        LET v == custom[custom_field_names[k]]
        IN v.tag = "str" /\ v.val # <<>> /\ SpellsAccept(v.val)}

Smallest(S) ==
    CHOOSE k \in S : \A j \in S : k <= j

\* C7: whenever get_ticket_details returns details, acceptance_criteria is
\* the value of the first field, in the order customfield_10000 ..
\* customfield_10005, that is a non-empty string spelling 'accept' in any
\* case; absent, None, non-string and non-matching fields are passed over;
\* with no such field it is 'No acceptance criteria provided'.
C7_FirstAcceptingField ==
    fn_pc = "ticket" /\ fn_in.entry = "tracker" =>
        LET custom == fn_in.fetched.custom
            hits == AcceptingPositions(custom)
        IN fn_out.ticket.acceptance_criteria =
               IF hits = {} THEN NoAcceptanceCriteria
               ELSE custom[custom_field_names[Smallest(hits)]].val

\* C7 witness: the first accepting field is the third one, it follows a
\* string that does not match and a non-string, a later field accepts with
\* another value, and the third field's value was returned.
C7_Witness ==
    /\ fn_pc = "ticket"
    /\ fn_in.entry = "tracker"
    /\ LET custom == fn_in.fetched.custom
       IN /\ Smallest(AcceptingPositions(custom) \cup {7}) = 3
          /\ custom["customfield_10000"] = PyStr(<<"n","o">>)
          /\ custom["customfield_10001"] = PyInt(7)
          /\ custom["customfield_10002"] = PyStr(<<"I"," ","A","C","C","E","P","T">>)
          /\ custom["customfield_10004"] = PyStr(<<"A","c","c","e","p","t">>)
          /\ fn_out.ticket.acceptance_criteria = <<"I"," ","A","C","C","E","P","T">>

\* an optional attribute that is absent, or present with no value
Missing(v) ==
    v.tag \in {"absent", "None"}

\* C8: for every issue whose priority or components is missing (absent, or
\* present with no value) get_ticket_details returns details, never None,
\* with priority 'Not set' and components the empty list respectively.
C8_MissingOptionalTolerated ==
    /\ fn_pc \in {"ticket", "no_ticket"}
    /\ fn_in.entry = "tracker"
    /\ fn_in.fetched.tag = "issue"
    /\ Missing(fn_in.fetched.priority) \/ Missing(fn_in.fetched.components)
    => /\ fn_out.ticket # NoDetails
       /\ Missing(fn_in.fetched.priority) => fn_out.ticket.priority = NotSet
       /\ Missing(fn_in.fetched.components) => fn_out.ticket.components = <<>>

-----------------------------------------------------------------------------
(* Claims about the prompt, under SpecPrompt *)

Position(seq, x) ==
    CHOOSE k \in 1..Len(seq) : seq[k] = x

\* what the prompt holds between the COMPONENTS label and the next label
ComponentsSection(prompt) ==
    SubSeq(prompt, Position(prompt, LabelComponents) + 1,
                   Position(prompt, LabelAcceptance) - 1)

\* the component names the ticket has at its entry point: the tracker's
\* components, the form's input when it is not left blank, none in a batch
EnteredComponents(input) ==
    CASE input.entry = "tracker" ->
             IF input.fetched.components.tag = "list"
             THEN [k \in 1..Len(input.fetched.components.val) |->
                      input.fetched.components.val[k].name]
             ELSE <<>>
      [] input.entry = "manual" ->
             IF input.form.components = <<>> THEN <<>>
             ELSE <<input.form.components>>
      [] OTHER -> <<>>

\* C9: for every ticket that reaches the prompt builder, from any entry
\* point, the COMPONENTS section is the component names joined with ', '
\* when the ticket has components and 'No components' when it has none (so
\* also for the form with the components input left blank).
C9_ComponentsSection ==
    fn_pc = "prompt" =>
        ComponentsSection(fn_out.prompt) =
            IF EnteredComponents(fn_in) = <<>> THEN NoComponents
            ELSE Join(EnteredComponents(fn_in), CommaSpace)

\* C10: the prompt is non-empty and contains, verbatim and unescaped, the
\* ticket's key, summary, description, issue type, priority and acceptance
\* criteria, and the fixed phrase 'Test case ID (TC-XX format)'.
C10_PromptEmbedsFields ==
    fn_pc = "prompt" =>
        LET t == fn_out.ticket
            prompt == fn_out.prompt
        IN /\ prompt # <<>>
           /\ Contains(prompt, <<LabelKey>> \o t.key \o <<LabelSummary>>)
           /\ Contains(prompt, <<LabelSummary>> \o t.summary \o <<LabelDescription>>)
           /\ Contains(prompt, <<LabelDescription>> \o t.description \o <<LabelIssueType>>)
           /\ Contains(prompt, <<LabelIssueType>> \o t.issue_type \o <<LabelPriority>>)
           /\ Contains(prompt, <<LabelPriority>> \o t.priority \o <<LabelComponents>>)
           /\ Contains(prompt, <<LabelAcceptance>> \o t.acceptance_criteria
                               \o <<InstructionsHead>>)
           /\ Contains(prompt, <<TestCaseIdPhrase>>)

\* C10 witness: a prompt was built from a form whose description holds
\* markup and brace characters and whose other fields are filled.
C10_Witness ==
    /\ fn_pc = "prompt"
    /\ fn_in.entry = "manual"
    /\ fn_out.ticket.key = ManualKey
    /\ fn_out.ticket.description = <<"<","b",">","{","x","}">>
    /\ fn_out.ticket.summary # <<>>
    /\ fn_out.ticket.acceptance_criteria # <<>>
    /\ Contains(fn_out.prompt, <<"<","b",">","{","x","}">>)

-----------------------------------------------------------------------------
(* The session: inputs *)

ApiKey ==
    <<"s","k">>

TrackerKeys ==
    {<<"P","-","1">>, <<"P","-","2">>}

\* what jira.issue(key) may give: an exception, a complete issue, or an issue
\* whose components attribute holds None
IssueOutcomes(key) ==
    {JiraError,
     [RawIssue(PyNone, Absent, PyList(<<PyNamed(<<"U","I">>)>>), NoCustom)
         EXCEPT !.key = key],
     [RawIssue(PyNone, Absent, PyNone, NoCustom) EXCEPT !.key = key]}

\* what jira.search_issues may give: the keys of the issues found, in the
\* tracker's order
SearchResults ==
    {<<>>, <<<<"P","-","1">>>>, <<<<"P","-","2">>>>,
     <<<<"P","-","1">>, <<"P","-","2">>>>,
     <<<<"P","-","2">>, <<"P","-","1">>>>}

\* the single-ticket form as filled in during a session
SessionForms ==
    {[key |-> <<"P","-","1">>, summary |-> <<"S","u","m">>,
      description |-> <<>>, issue_type |-> Story, priority |-> Medium,
      components |-> <<>>, acceptance_criteria |-> <<>>]}

\* the free-text batch inputs of a session: empty; three lines, the middle
\* one malformed; two lines with the same key under a blank first line
SessionTexts ==
    {<<>>,
     <<"K","|","|","\n","|","\n","|","|">>,
     <<" ","\n","K","|","K","|","K","\n","K","|","|">>}

\* what the completion service may answer (response.choices[0].message.content)
Contents ==
    {<<>>, <<"T","1">>, <<"T","2">>}

\* the result of a call that has not returned yet
Pending ==
    <<"pending">>


-----------------------------------------------------------------------------
(* The session store *)

\* st.session_state.generated_test_cases[key] = text
Put(store, key, text) ==
    [k \in DOMAIN store \cup {key} |-> IF k = key THEN text ELSE store[k]]

-----------------------------------------------------------------------------
(* Button handlers.  A handler starts on a click and runs to its end; the  *)
(* script's local variables start afresh on every click.                   *)

CanClick ==
    /\ pc \in {"idle", "done"}
    /\ clicks < MaxClicks

\* a handler that ends at once, having shown the errors `shown`
EndsAtOnce(h, shown) ==
    /\ handler' = h
    /\ pc' = "done"
    /\ clicks' = clicks + 1
    /\ st_errors' = shown
    /\ lines' = <<>>
    /\ selected_tickets' = <<>>
    /\ i' = 0
    /\ ticket_key' = <<>>
    /\ ticket_details' = NoDetails
    /\ test_cases' = None
    /\ requests' = <<>>
    /\ progress' = [num |-> 0, den |-> 1]
    /\ status_text' = NoStatus
    /\ log' = <<>>
    /\ comments' = <<>>
    /\ success' = NotSaved
    /\ store_at_start' = generated_test_cases
    /\ UNCHANGED <<openai_api_key, jira_filled, batch_descriptions,
                   generated_test_cases, fetched_tickets, fnVars>>

\* a handler that calls generate_test_cases for one ticket
CallsGenerate(h, key, details) ==
    /\ handler' = h
    /\ pc' = "in_call"
    /\ clicks' = clicks + 1
    /\ st_errors' = {}
    /\ lines' = <<>>
    /\ selected_tickets' = <<>>
    /\ i' = 0
    /\ ticket_key' = key
    /\ ticket_details' = details
    /\ test_cases' = None
    /\ requests' = <<>>
    /\ progress' = [num |-> 0, den |-> 1]
    /\ status_text' = NoStatus
    /\ log' = <<[index |-> 0, key |-> key, what |-> "generate",
                 result |-> Pending]>>
    /\ comments' = <<>>
    /\ success' = NotSaved
    /\ store_at_start' = generated_test_cases
    /\ UNCHANGED <<openai_api_key, jira_filled, batch_descriptions,
                   generated_test_cases, fetched_tickets, fnVars>>

\* a handler that enters a batch loop over `items`
EntersLoop(h, free_text_lines, selected) ==
    /\ handler' = h
    /\ pc' = "loop"
    /\ clicks' = clicks + 1
    /\ st_errors' = {}
    /\ lines' = free_text_lines
    /\ selected_tickets' = selected
    /\ i' = 0
    /\ ticket_key' = <<>>
    /\ ticket_details' = NoDetails
    /\ test_cases' = None
    /\ requests' = <<>>
    /\ progress' = [num |-> 0, den |-> 1]
    /\ status_text' = NoStatus
    /\ log' = <<>>
    /\ comments' = <<>>
    /\ success' = NotSaved
    /\ store_at_start' = generated_test_cases
    /\ UNCHANGED <<openai_api_key, jira_filled, batch_descriptions,
                   generated_test_cases, fetched_tickets, fnVars>>

\* "Generate Test Cases" of the manual form (lines 369-374)
ClickManualSingle ==
    /\ CanClick
    /\ \E form \in SessionForms :
          IF openai_api_key = <<>>
          THEN EndsAtOnce("manual_single", {"api_key"})
          ELSE CallsGenerate("manual_single", form.key, ManualTicket(form))

\* "Generate Test Cases for <key>" (lines 398-425); connect_to_jira and
\* jira.issue answer as the tracker decides
ClickTrackerSingle ==
    /\ CanClick
    /\ \E key \in TrackerKeys :
          IF openai_api_key = <<>>
          THEN EndsAtOnce("tracker_single", {"api_key"})
          ELSE IF ~jira_filled
          THEN EndsAtOnce("tracker_single", {"jira_fields"})
          ELSE \/ EndsAtOnce("tracker_single", {"connect"})
               \/ \E fetched \in IssueOutcomes(key) :
                     LET details == GetTicketDetails(fetched)
                     IN IF details = NoDetails
                        THEN EndsAtOnce("tracker_single", {"details"})
                        ELSE CallsGenerate("tracker_single", key, details)

\* "Generate Test Cases for Batch" (lines 477-485)
ClickManualBatch ==
    /\ CanClick
    /\ IF openai_api_key = <<>>
       THEN EndsAtOnce("manual_batch", {"api_key"})
       ELSE IF batch_descriptions = <<>>
       THEN EndsAtOnce("manual_batch", {"no_text"})
       ELSE EntersLoop("manual_batch",
                       Split(Strip(batch_descriptions), "\n"), <<>>)

\* the keys of ticket_options (line 521): each key once, in fetched order
RECURSIVE DictKeys(_)
DictKeys(keys) ==
    IF keys = <<>> THEN <<>>
    ELSE LET rest == DictKeys(SubSeq(keys, 1, Len(keys) - 1))
             last == keys[Len(keys)]
         IN IF \E k \in 1..Len(rest) : rest[k] = last THEN rest
            ELSE Append(rest, last)

\* the selections the checkboxes allow (lines 531-537): any keys of
\* ticket_options, in its order
Selections(options) ==
    {SelectSeq(options, LAMBDA k : k \in chosen) :
        chosen \in SUBSET {options[k] : k \in 1..Len(options)}}

\* "Generate Test Cases for All Selected" (lines 517-552)
ClickTrackerBatch ==
    /\ CanClick
    /\ fetched_tickets # <<>>
    /\ \E selected \in Selections(DictKeys(fetched_tickets)) :
          /\ selected # <<>>
          /\ IF openai_api_key = <<>>
             THEN EndsAtOnce("tracker_batch", {"api_key"})
             ELSE IF ~jira_filled
             THEN EndsAtOnce("tracker_batch", {"jira_fields"})
             ELSE \/ EndsAtOnce("tracker_batch", {"connect"})
                  \/ EntersLoop("tracker_batch", <<>>, selected)

\* the project key of the sidebar (line 57), left empty or filled in
JiraProjects ==
    {<<>>, <<"P">>}

\* the trackers a session may meet
SessionTrackers ==
    [fails : BOOLEAN, matches : SearchResults]

\* the values of the "Maximum Tickets" input tried in a session (line 310)
SessionCaps ==
    {1, 20}

\* "Fetch Tickets" (lines 312-329): All becomes no status, the search answers
\* as the tracker decides, and only a non-empty result replaces the list
ClickFetchTickets ==
    /\ CanClick
    /\ \E jira_project \in JiraProjects :
       IF ~jira_filled \/ jira_project = <<>>
       THEN EndsAtOnce("fetch", {"jira_fields"})
       ELSE \/ EndsAtOnce("fetch", {"connect"})
            \/ \E status_filter \in status_options, max_results \in SessionCaps,
                  tracker \in SessionTrackers :
                  LET status == IF status_filter = All THEN None
                                ELSE status_filter
                      fetched == FetchJiraTickets(tracker, jira_project, status,
                                                  max_results)
                      tickets == fetched.result
                  IN /\ handler' = "fetch"
                     /\ pc' = "done"
                     /\ clicks' = clicks + 1
                     /\ st_errors' = fetched.shown
                     /\ fetched_tickets' =
                           IF tickets # <<>> THEN tickets ELSE fetched_tickets
                     /\ lines' = <<>>
                     /\ selected_tickets' = <<>>
                     /\ i' = 0
                     /\ ticket_key' = <<>>
                     /\ ticket_details' = NoDetails
                     /\ test_cases' = None
                     /\ requests' = <<>>
                     /\ progress' = [num |-> 0, den |-> 1]
                     /\ status_text' = NoStatus
                     /\ log' = <<>>
                     /\ comments' = <<>>
                     /\ success' = NotSaved
                     /\ store_at_start' = generated_test_cases
                     /\ UNCHANGED <<openai_api_key, jira_filled,
                                    batch_descriptions, generated_test_cases,
                                    fnVars>>

\* what the ticket key input of line 389 or the selectbox of line 393 may
\* hold: nothing, a tracker key, or the key of a free-text line
SaveKeyInputs ==
    TrackerKeys \cup {<<>>, <<"K">>}

\* the "Save Test Cases to Jira" button is drawn (lines 435 and 449)
SaveButtonShown(manual, key) ==
    /\ TruthyStr(key)
    /\ key \in DOMAIN generated_test_cases
    /\ ~manual

\* the end of the save handler: what it showed, posted and got back
SaveEnds(key, shown, posted, result) ==
    /\ handler' = "save"
    /\ pc' = "done"
    /\ clicks' = clicks + 1
    /\ st_errors' = shown
    /\ lines' = <<>>
    /\ selected_tickets' = <<>>
    /\ i' = 0
    /\ ticket_key' = key
    /\ ticket_details' = NoDetails
    /\ test_cases' = None
    /\ requests' = <<>>
    /\ progress' = [num |-> 0, den |-> 1]
    /\ status_text' = NoStatus
    /\ log' = <<>>
    /\ comments' = posted
    /\ success' = result
    /\ store_at_start' = generated_test_cases
    /\ UNCHANGED <<openai_api_key, jira_filled, batch_descriptions,
                   generated_test_cases, fetched_tickets, fnVars>>

\* "Save Test Cases to Jira" (lines 435-462).  With the manual-input checkbox
\* set the script has no ticket_key when no generation runs (lines 355-396),
\* so the button is not drawn and cannot be clicked.
ClickSaveToJira ==
    /\ CanClick
    /\ \E use_manual_input \in BOOLEAN, typed \in SaveKeyInputs :
          LET key == IF use_manual_input THEN None ELSE typed
          IN /\ SaveButtonShown(use_manual_input, key)
             /\ IF ~jira_filled
                THEN SaveEnds(key, {"jira_fields"}, <<>>, NotSaved)
                ELSE \/ SaveEnds(key, {"connect"}, <<>>, NotSaved)
                     \/ \E raises \in BOOLEAN :
                           LET saved == SaveTestCasesToJira(
                                            raises, use_manual_input, key,
                                            generated_test_cases[key])
                           IN SaveEnds(key, saved.shown, <<saved.comment>>,
                                       saved.success)

-----------------------------------------------------------------------------
(* The steps inside a handler *)

LogEntry(what, key, result) ==
    [index |-> i, key |-> key, what |-> what, result |-> result]

\* one pass of the free-text loop up to the call of line 506 (lines 487-506)
ManualBatchIterate ==
    /\ handler = "manual_batch"
    /\ pc = "loop"
    /\ i < Len(lines)
    /\ LET line == lines[i + 1]
       IN IF WellFormed(line)
          THEN LET ticket == BatchTicket(line)
               IN /\ ticket_key' = ticket.key
                  /\ ticket_details' = ticket
                  /\ status_text' = Processing(ticket.key, i + 1, Len(lines))
                  /\ log' = Append(log, LogEntry("generate", ticket.key, Pending))
                  /\ pc' = "in_call"
          ELSE /\ log' = Append(log, LogEntry("malformed", <<>>, None))
               /\ pc' = "progress"
               /\ UNCHANGED <<ticket_key, ticket_details, status_text>>
    /\ UNCHANGED <<openai_api_key, jira_filled, batch_descriptions, clicks,
                   comments, success,
                   generated_test_cases, fetched_tickets, handler, lines,
                   selected_tickets, i, test_cases, requests, progress,
                   st_errors, store_at_start, fnVars>>

\* one pass of the tracker loop up to the call of line 559 (lines 554-559)
TrackerBatchIterate ==
    /\ handler = "tracker_batch"
    /\ pc = "loop"
    /\ i < Len(selected_tickets)
    /\ LET key == selected_tickets[i + 1]
       IN /\ ticket_key' = key
          /\ status_text' = Processing(key, i + 1, Len(selected_tickets))
          /\ \E fetched \in IssueOutcomes(key) :
                LET details == GetTicketDetails(fetched)
                IN /\ ticket_details' = details
                   /\ IF details # NoDetails
                      THEN /\ log' = Append(log, LogEntry("generate", key, Pending))
                           /\ pc' = "in_call"
                           /\ st_errors' = st_errors
                      ELSE /\ log' = Append(log, LogEntry("no_details", key, None))
                           /\ pc' = "progress"
                           /\ st_errors' = st_errors \cup {"details"}
    /\ UNCHANGED <<openai_api_key, jira_filled, batch_descriptions, clicks,
                   comments, success,
                   generated_test_cases, fetched_tickets, handler, lines,
                   selected_tickets, i, test_cases, requests, progress,
                   store_at_start, fnVars>>

\* the call has returned `result` after the requests `sent`, showing `shown`
Returns(result, sent, shown) ==
    /\ test_cases' = result
    /\ requests' = sent
    /\ st_errors' = st_errors \cup shown
    /\ log' = [log EXCEPT ![Len(log)].result = result]
    /\ pc' = "returned"

\* generate_test_cases submitted and not awaited: the handler goes on while
\* the call is outstanding
GenerateTestCasesAsync ==
    /\ pc = "in_call"
    /\ test_cases' = None
    /\ pc' = "returned"
    /\ UNCHANGED <<openai_api_key, jira_filled, batch_descriptions, clicks,
                   comments, success,
                   generated_test_cases, fetched_tickets, handler, lines,
                   selected_tickets, i, ticket_key, ticket_details, progress,
                   status_text, store_at_start, requests, st_errors, log,
                   fnVars>>

\* the answer of a request that raised
RequestFailed ==
    <<"error">>

\* client.chat.completions.create (lines 209-216) with the service's answer
Request(answer) ==
    [prompt |-> BuildPrompt(ticket_details), answer |-> answer]

\* the request of lines 208-221 sent again after a failure, once
GenerateTestCasesWithRetry ==
    /\ pc = "in_call"
    /\ IF openai_api_key = <<>>
       THEN Returns(None, <<>>, {"api_key"})
       ELSE \/ Returns(None, <<>>, {"client"})
            \/ Returns(None, <<Request(RequestFailed), Request(RequestFailed)>>,
                       {"generate"})
            \/ \E content \in Contents :
                  \/ Returns(content, <<Request(content)>>, {})
                  \/ Returns(content, <<Request(RequestFailed), Request(content)>>, {})
    /\ UNCHANGED <<openai_api_key, jira_filled, batch_descriptions, clicks,
                   comments, success,
                   generated_test_cases, fetched_tickets, handler, lines,
                   selected_tickets, i, ticket_key, ticket_details, progress,
                   status_text, store_at_start, fnVars>>

\* generate_test_cases (lines 163-221): no key, or the client cannot be made,
\* or the one request fails, or it answers
GenerateTestCases ==
    /\ pc = "in_call"
    /\ IF openai_api_key = <<>>
       THEN Returns(None, <<>>, {"api_key"})
       ELSE \/ Returns(None, <<>>, {"client"})
            \/ Returns(None, <<Request(RequestFailed)>>, {"generate"})
            \/ \E content \in Contents : Returns(content, <<Request(content)>>, {})
    /\ UNCHANGED <<openai_api_key, jira_filled, batch_descriptions, clicks,
                   comments, success,
                   generated_test_cases, fetched_tickets, handler, lines,
                   selected_tickets, i, ticket_key, ticket_details, progress,
                   status_text, store_at_start, fnVars>>

InBatch ==
    handler \in {"manual_batch", "tracker_batch"}

\* the store with a failure ending the handler: nothing catches it, and a
\* batch stops at the failed item
StoreResultOrAbort ==
    /\ pc = "returned"
    /\ generated_test_cases' =
          IF TruthyStr(test_cases)
          THEN Put(generated_test_cases, ticket_key, test_cases)
          ELSE generated_test_cases
    /\ pc' = IF InBatch /\ TruthyStr(test_cases) THEN "progress" ELSE "done"
    /\ UNCHANGED <<openai_api_key, jira_filled, batch_descriptions, clicks,
                   comments, success,
                   fetched_tickets, handler, lines, selected_tickets, i,
                   ticket_key, ticket_details, test_cases, requests, progress,
                   status_text, st_errors, log, store_at_start, fnVars>>

\* the store without the `if test_cases:` test
StoreResultAlways ==
    /\ pc = "returned"
    /\ generated_test_cases' = Put(generated_test_cases, ticket_key, test_cases)
    /\ pc' = IF InBatch THEN "progress" ELSE "done"
    /\ UNCHANGED <<openai_api_key, jira_filled, batch_descriptions, clicks,
                   comments, success,
                   fetched_tickets, handler, lines, selected_tickets, i,
                   ticket_key, ticket_details, test_cases, requests, progress,
                   status_text, st_errors, log, store_at_start, fnVars>>

\* the store that keeps the first text of a key (dict.setdefault)
StoreResultKeepFirst ==
    /\ pc = "returned"
    /\ generated_test_cases' =
          IF TruthyStr(test_cases) /\ ticket_key \notin DOMAIN generated_test_cases
          THEN Put(generated_test_cases, ticket_key, test_cases)
          ELSE generated_test_cases
    /\ pc' = IF InBatch THEN "progress" ELSE "done"
    /\ UNCHANGED <<openai_api_key, jira_filled, batch_descriptions, clicks,
                   comments, success,
                   fetched_tickets, handler, lines, selected_tickets, i,
                   ticket_key, ticket_details, test_cases, requests, progress,
                   status_text, st_errors, log, store_at_start, fnVars>>

\* `if test_cases:` and the store below it (lines 376-378, 427-428, 507-508,
\* 560-561)
StoreResult ==
    /\ pc = "returned"
    /\ generated_test_cases' =
          IF TruthyStr(test_cases)
          THEN Put(generated_test_cases, ticket_key, test_cases)
          ELSE generated_test_cases
    /\ pc' = IF InBatch THEN "progress" ELSE "done"
    /\ UNCHANGED <<openai_api_key, jira_filled, batch_descriptions, clicks,
                   comments, success,
                   fetched_tickets, handler, lines, selected_tickets, i,
                   ticket_key, ticket_details, test_cases, requests, progress,
                   status_text, st_errors, log, store_at_start, fnVars>>

\* len(lines) or len(selected_tickets)
Total ==
    IF handler = "manual_batch" THEN Len(lines) ELSE Len(selected_tickets)

\* the progress update moved under `if test_cases:`
BatchProgressOnSuccess ==
    /\ InBatch
    /\ pc = "progress"
    /\ progress' = IF TruthyStr(test_cases)
                   THEN [num |-> i + 1, den |-> Total]
                   ELSE progress
    /\ i' = i + 1
    /\ pc' = "loop"
    /\ UNCHANGED <<openai_api_key, jira_filled, batch_descriptions, clicks,
                   comments, success,
                   generated_test_cases, fetched_tickets, handler, lines,
                   selected_tickets, ticket_key, ticket_details, test_cases,
                   requests, status_text, st_errors, log, store_at_start,
                   fnVars>>

\* progress_bar.progress((i + 1) / total) and the step to the next item
\* (lines 510, 563)
BatchProgress ==
    /\ InBatch
    /\ pc = "progress"
    /\ progress' = [num |-> i + 1, den |-> Total]
    /\ i' = i + 1
    /\ pc' = "loop"
    /\ UNCHANGED <<openai_api_key, jira_filled, batch_descriptions, clicks,
                   comments, success,
                   generated_test_cases, fetched_tickets, handler, lines,
                   selected_tickets, ticket_key, ticket_details, test_cases,
                   requests, status_text, st_errors, log, store_at_start,
                   fnVars>>

\* the end of the loop (lines 512-513, 565-566)
BatchFinish ==
    /\ InBatch
    /\ pc = "loop"
    /\ i = Total
    /\ status_text' = Finished
    /\ pc' = "done"
    /\ UNCHANGED <<openai_api_key, jira_filled, batch_descriptions, clicks,
                   comments, success,
                   generated_test_cases, fetched_tickets, handler, lines,
                   selected_tickets, i, ticket_key, ticket_details, test_cases,
                   requests, progress, st_errors, log, store_at_start,
                   fnVars>>

\* the steps a running handler takes by itself
HandlerStep ==
    \/ ManualBatchIterate
    \/ TrackerBatchIterate
    \/ GenerateTestCases
    \/ StoreResult
    \/ BatchProgress
    \/ BatchFinish

-----------------------------------------------------------------------------
(* The session *)

Init ==
    /\ \E api_key \in {<<>>, ApiKey}, filled \in BOOLEAN, text \in SessionTexts :
          SessionStart(api_key, filled, text)
    /\ FnOff

Next ==
    \/ ClickManualSingle
    \/ ClickTrackerSingle
    \/ ClickManualBatch
    \/ ClickTrackerBatch
    \/ ClickFetchTickets
    \/ ClickSaveToJira
    \/ ManualBatchIterate
    \/ TrackerBatchIterate
    \/ GenerateTestCases
    \/ StoreResult
    \/ BatchProgress
    \/ BatchFinish

Spec ==
    Init /\ [][Next]_vars

\* a handler is synchronous code: once started, it keeps running
SpecLive ==
    Init /\ [][Next]_vars /\ WF_vars(HandlerStep)

\* the free-text batch alone, over every text of at most MaxTextLen characters
InitFreeText ==
    /\ \E api_key \in {<<>>, ApiKey}, text \in TextsUpTo(MaxTextLen) :
          SessionStart(api_key, FALSE, text)
    /\ FnOff

NextFreeText ==
    \/ ClickManualBatch
    \/ ManualBatchIterate
    \/ GenerateTestCases
    \/ StoreResult
    \/ BatchProgress
    \/ BatchFinish

SpecFreeText ==
    InitFreeText /\ [][NextFreeText]_vars

-----------------------------------------------------------------------------
(* Claims about the batch loops and the session store *)

\* a batch loop is running
Running ==
    InBatch /\ pc \in {"loop", "in_call", "returned", "progress"}

\* a batch loop has reached its 'All tickets processed!' end
Completed ==
    InBatch /\ pc = "done" /\ status_text = Finished

\* the generate_test_cases calls among the entries of a log
GenAttempts(entries) ==
    SelectSeq(entries, LAMBDA e : e.what = "generate")

\* the number of '|' in a line
PipeCount(line) ==
    Cardinality({k \in 1..Len(line) : line[k] = "|"})

\* C1: in both batch loops a failure on one item never stops the loop: a
\* running loop ends only at its 'All tickets processed!' end, at that end
\* every one of the n items was handled in turn (each well-formed line, and
\* each ticket whose details were available, by a generation attempt), and a
\* running loop always reaches that end.
C1_BatchNeverAborts ==
    /\ [](Completed =>
            /\ i = Total
            /\ Len(log) = Total
            /\ \A j \in 1..Total :
                  /\ log[j].index = j - 1
                  /\ handler = "manual_batch" =>
                        (log[j].what = "generate" <=> PipeCount(lines[j]) >= 2)
                  /\ handler = "tracker_batch" =>
                        /\ log[j].key = selected_tickets[j]
                        /\ log[j].what \in {"generate", "no_details"})
    /\ [][Running /\ pc' = "done" => Completed']_vars
    /\ (Running ~> Completed)

\* C1 witness: a free-text batch reached its end although the generation for
\* its first item failed; the third item was attempted after it and stored.
C1_Witness ==
    /\ Completed
    /\ handler = "manual_batch"
    /\ Len(log) = 3
    /\ log[1].what = "generate" /\ log[1].result = None
    /\ log[3].what = "generate" /\ log[3].result = <<"T","1">>

\* the first positions of the lines of a text, the position after a final
\* newline included
LineStarts(text) ==
    {a \in 1..(Len(text) + 1) : a = 1 \/ text[a - 1] = "\n"}

\* the number of '|' on the line of the text that starts at position a
PipesOnLine(text, a) ==
    Cardinality({k \in a..Len(text) :
                    /\ text[k] = "|"
                    /\ \A j \in a..k : text[j] # "\n"})

\* C2: a free-text batch makes exactly as many generation attempts as the
\* input text has lines that split on '|' into at least 3 parts, and the pass
\* over a line with fewer parts makes no attempt, writes nothing to the
\* session store, shows no error and goes on to the progress update.
C2_AttemptsAreWellFormedLines ==
    /\ [](Completed /\ handler = "manual_batch" =>
            Len(GenAttempts(log)) =
                Cardinality({a \in LineStarts(batch_descriptions) :
                                PipesOnLine(batch_descriptions, a) >= 2}))
    /\ [][handler = "manual_batch" /\ pc = "loop" /\ i < Len(lines)
            /\ PipeCount(lines[i + 1]) < 2
          => /\ pc' = "progress"
             /\ GenAttempts(log') = GenAttempts(log)
             /\ generated_test_cases' = generated_test_cases
             /\ st_errors' = st_errors
             /\ requests' = requests]_vars

\* C2 witness: a completed free-text batch whose text began with a blank
\* line and held both a well-formed line and a malformed one.
C2_Witness ==
    /\ Completed
    /\ handler = "manual_batch"
    /\ batch_descriptions[1] \in Whitespace
    /\ Len(GenAttempts(log)) = 1
    /\ \E j \in 1..Len(log) : log[j].what = "malformed"
    /\ st_errors = {}

\* the calls of a log that have not returned
PendingCalls(entries) ==
    {j \in 1..Len(entries) : entries[j].result = Pending}

\* C3: a batch handles its items strictly in input order with at most one
\* generation call outstanding: the log follows the input order, only its
\* last call can be outstanding, and when the attempt for a later item begins
\* the attempt before it has returned and its result, if any, is in the store.
C3_OneCallAtATime ==
    /\ [](InBatch =>
            /\ Cardinality(PendingCalls(log)) <= 1
            /\ \A j \in 1..Len(log) :
                  /\ log[j].index = j - 1
                  /\ j < Len(log) => log[j].result # Pending)
    /\ [][InBatch /\ Len(log) > 0 /\ Len(log') = Len(log) + 1
            /\ log'[Len(log')].what = "generate"
          => /\ PendingCalls(log) = {}
             /\ log'[Len(log')].index > log[Len(log)].index
             /\ \A j \in 1..Len(log) :
                   (/\ log[j].what = "generate"
                    /\ TruthyStr(log[j].result)
                    /\ \A k \in (j + 1)..Len(log) : log[k].key # log[j].key)
                   => /\ log[j].key \in DOMAIN generated_test_cases
                      /\ generated_test_cases[log[j].key] = log[j].result]_vars

\* C3 witness: the second call of a batch is outstanding, the first one has
\* returned a text and the store holds it.
C3_Witness ==
    /\ Running
    /\ pc = "in_call"
    /\ Len(GenAttempts(log)) = 2
    /\ log[Len(log)].result = Pending
    /\ TruthyStr(log[1].result)
    /\ log[1].key \in DOMAIN generated_test_cases
    /\ log[1].key # log[Len(log)].key

\* C4: the session store changes only when a generation succeeded: the step
\* that changes it follows a call that returned a non-empty text, sets the
\* entry of that call's ticket key to the text and leaves every other entry
\* as it was; after a failed or empty generation nothing changes, and a
\* successful one is always stored.
C4_StoreChangesOnSuccessOnly ==
    /\ [][generated_test_cases' # generated_test_cases
          => /\ pc = "returned"
             /\ test_cases # None /\ test_cases # <<>>
             /\ DOMAIN generated_test_cases' =
                    DOMAIN generated_test_cases \cup {ticket_key}
             /\ generated_test_cases'[ticket_key] = test_cases
             /\ \A k \in DOMAIN generated_test_cases :
                   k # ticket_key =>
                       generated_test_cases'[k] = generated_test_cases[k]]_vars
    /\ [][pc = "returned" /\ pc' # "returned"
          => IF test_cases \in Contents \ {<<>>}
             THEN /\ ticket_key \in DOMAIN generated_test_cases'
                  /\ generated_test_cases'[ticket_key] = test_cases
             ELSE generated_test_cases' = generated_test_cases]_vars

\* C4 witness: a generation for a key failed after an earlier one for the
\* same key had succeeded, and the earlier text is still stored.
C4_Witness ==
    /\ pc = "done"
    /\ handler = "manual_single"
    /\ Len(log) = 1
    /\ log[1].result = None
    /\ Len(requests) = 1
    /\ ticket_key \in DOMAIN generated_test_cases
    /\ generated_test_cases[ticket_key] = <<"T","2">>
    /\ store_at_start = generated_test_cases

\* the positions of a log whose call returned a non-empty text for key k
Successes(entries, k) ==
    {j \in 1..Len(entries) :
        /\ entries[j].what = "generate"
        /\ entries[j].key = k
        /\ TruthyStr(entries[j].result)}

Largest(S) ==
    CHOOSE k \in S : \A j \in S : j <= k

\* the keys of the inputs of the batch that have one
InputKeys ==
    {log[j].key : j \in {k \in 1..Len(log) : log[k].what # "malformed"}}

C6_ProgressCountsItems ==
    /\ [](Running \/ Completed =>
            /\ progress.den > 0
            /\ progress.num <= progress.den
            /\ pc = "loop" => progress.num * Total = i * progress.den
            /\ Completed => progress.num = progress.den /\ progress.num = Total)
    /\ [][Running =>
            progress'.num * progress.den >= progress.num * progress'.den]_vars

\* C6 witness: two of three items are handled, the first by a failed
\* generation and the second skipped as malformed, and the progress is 2/3.
C6_Witness ==
    /\ Running
    /\ pc = "loop"
    /\ i = 2
    /\ Total = 3
    /\ log[1].what = "generate" /\ log[1].result = None
    /\ log[2].what = "malformed"
    /\ progress = [num |-> 2, den |-> 3]

-----------------------------------------------------------------------------
(* Claims about fetch_jira_tickets, under SpecSearch *)

\* the call has been made and the tracker was asked
Searched ==
    fn_pc = "searched" /\ TruthyStr(fn_in.project_key)

\* no status is given: None or the empty string
NoStatusGiven ==
    fn_in.status \in {None, <<>>}

\* C12: with a project key, fetch_jira_tickets sends the tracker one search:
\* its query is exactly 'project = <key>' when no status is given or the
\* status is 'All', and that text followed by " AND status = '<status>'" for
\* any other status, and its cap is max_results as passed; the function
\* returns what the tracker answers, element for element in the tracker's
\* order, and the empty list when the search fails.  With an empty project
\* key it sends nothing and returns the empty list.
C12_QueryCapAndOrder ==
    /\ Searched =>
          /\ Len(fn_out.sent) = 1
          /\ fn_out.sent[1].maxResults = fn_in.max_results
          /\ LET query == fn_out.sent[1].query
                 base == Len(ProjectClause) + Len(fn_in.project_key)
             IN /\ Len(query) >= base
                /\ SubSeq(query, 1, Len(ProjectClause)) = ProjectClause
                /\ SubSeq(query, Len(ProjectClause) + 1, base) = fn_in.project_key
                /\ SubSeq(query, base + 1, Len(query)) =
                      IF NoStatusGiven \/ fn_in.status = All
                      THEN <<>>
                      ELSE StatusClause \o fn_in.status \o Quote
          /\ fn_in.tracker.fails => fn_out.result = <<>>
          /\ ~fn_in.tracker.fails =>
                /\ Len(fn_out.result) <= fn_in.max_results
                /\ Len(fn_out.result) <= Len(fn_in.tracker.matches)
                /\ Len(fn_out.result) = fn_in.max_results
                      \/ Len(fn_out.result) = Len(fn_in.tracker.matches)
                /\ \A k \in 1..Len(fn_out.result) :
                      fn_out.result[k] = fn_in.tracker.matches[k]
    /\ fn_pc = "searched" /\ ~TruthyStr(fn_in.project_key) =>
          fn_out.sent = <<>> /\ fn_out.result = <<>>

\* C12 witness: a search for status 'Done' capped at 2 on a tracker holding
\* three issues out of key order returns the first two as the tracker has them.
C12_Witness ==
    /\ Searched
    /\ fn_in.status = <<"D","o","n","e">>
    /\ fn_in.max_results = 2
    /\ ~fn_in.tracker.fails
    /\ fn_in.tracker.matches = <<<<"P","-","3">>, <<"P","-","1">>, <<"P","-","2">>>>
    /\ fn_out.result = <<<<"P","-","3">>, <<"P","-","1">>>>
    /\ Len(fn_out.sent[1].query) > Len(ProjectClause) + Len(fn_in.project_key)

-----------------------------------------------------------------------------
(* Claims about saving to the tracker, under Spec *)

\* C13: every comment a handler posts, or tries to post, for a key k is
\* posted while the session store holds a text for k, and that text is one
\* a generation returned; it is posted with the manual-input checkbox off;
\* its body is the header '*AI Generated Test Cases*' and a blank line
\* followed by the stored text for k.  A post that fails makes
\* save_test_cases_to_jira return False, a post that succeeds True.  No run
\* of the save handler, failed or not, changes the session store, and only
\* the save handler posts.
C13_CommentsComeFromTheStore ==
    /\ [](/\ \A n \in 1..Len(comments) :
               LET c == comments[n]
               IN /\ c.key \in DOMAIN generated_test_cases
                  /\ generated_test_cases[c.key] \in Contents \ {<<>>}
                  /\ ~c.manual
                  /\ Len(c.body) = Len(CommentHeader)
                                     + Len(generated_test_cases[c.key])
                  /\ SubSeq(c.body, 1, Len(CommentHeader)) = CommentHeader
                  /\ SubSeq(c.body, Len(CommentHeader) + 1, Len(c.body)) =
                        generated_test_cases[c.key]
                  /\ c.raised <=> success = "False"
          /\ comments # <<>> => handler = "save" /\ Len(comments) = 1
          /\ comments = <<>> => success = NotSaved)
    /\ [][handler' = "save" /\ clicks' # clicks =>
             generated_test_cases' = generated_test_cases]_vars

\* C13 witness: after a generation for P-1 stored T1, a post of the comment
\* for P-1 failed: the handler got False and the store is as it was.
C13_Witness ==
    /\ handler = "save"
    /\ Len(comments) = 1
    /\ comments[1].key = <<"P","-","1">>
    /\ comments[1].raised
    /\ success = "False"
    /\ "save" \in st_errors
    /\ generated_test_cases = store_at_start
    /\ generated_test_cases[<<"P","-","1">>] = <<"T","1">>

=============================================================================
